---- MODULE Spec2Model ----
(***************************************************************************)
(* Model of the ETL exercise: CSVCleaner and Transformations               *)
(* (src/ETL_Exercise.py), their driver main(), and the flat script         *)
(* (src/Simple_ETL_Exercise.py).                                           *)
(*                                                                         *)
(* Text is a sequence of one-character strings.  A cell of a DataFrame is  *)
(* a tagged value: missing (NaN), text, or number.  Numbers are naturals   *)
(* (amounts in whole units); their text form is the decimal numeral.       *)
(* A CSV file is a header and lines of raw field text; the alphabet has no *)
(* delimiter, quote or newline, so quoting never applies.                  *)
(***************************************************************************)
EXTENDS Integers, Sequences, FiniteSets, TLC

\* fs      the files on disk, by path
\* prog    the program that runs: the unit-test style client of CSVCleaner
\*         ("cleaner") or of Transformations ("transformer"), main() ("main"),
\*         or the flat script ("script")
\* pc      the next statement of the program
\* data    CSVCleaner.data (input_data in the flat script)
\* tdata   Transformations.data (groupby_data in the flat script)
\* call    the last call made: operation, arguments, the receiver's dataset
\*         at entry, the exception it raised, and the count it printed
\* stdout  the error lines the flat script has printed
\* keyruns the number of generate_uniqueID calls made so far
VARIABLES fs, prog, pc, data, tdata, call, stdout, keyruns

vars == <<fs, prog, pc, data, tdata, call, stdout, keyruns>>

----------------------------------------------------------------------------
(* Bounds of the model *)

\* Most data rows in the input file.
MaxRows == 2

\* Most calls of generate_uniqueID on one cleaner (each call on a dataset
\* that already has a unique_id digests the previous digest again).
MaxKeyRuns == 2

----------------------------------------------------------------------------
(* Text *)

Digits == <<"0", "1", "2", "3", "4", "5", "6", "7", "8", "9">>

\* Characters in ASCII order.
Ascii == <<" ", "#", "0", "1", "2", "3", "4", "5", "6", "7", "8", "9",
           "A", "L", "N", "U", "_", "a">>

Ord(c) == CHOOSE i \in 1..Len(Ascii) : Ascii[i] = c

IsDigit(c) == \E i \in 1..Len(Digits) : Digits[i] = c

DigitVal(c) == (CHOOSE i \in 1..Len(Digits) : Digits[i] = c) - 1

IsDigits(s) == Len(s) > 0 /\ \A i \in 1..Len(s) : IsDigit(s[i])

RECURSIVE IntToStr(_)
IntToStr(n) ==
    IF n < 10 THEN <<Digits[n + 1]>>
    ELSE IntToStr(n \div 10) \o <<Digits[(n % 10) + 1]>>

RECURSIVE StrToInt(_)
StrToInt(s) ==
    IF Len(s) = 0 THEN 0
    ELSE 10 * StrToInt(SubSeq(s, 1, Len(s) - 1)) + DigitVal(s[Len(s)])

\* str.lower() on one character.
LowerChar(c) == IF c = "A" THEN "a"
                ELSE IF c = "L" THEN "l"
                ELSE IF c = "N" THEN "n"
                ELSE IF c = "U" THEN "u"
                ELSE c

lower(s) == [i \in 1..Len(s) |-> LowerChar(s[i])]

RECURSIVE lstrip(_)
lstrip(s) == IF Len(s) > 0 /\ s[1] = " " THEN lstrip(Tail(s)) ELSE s

RECURSIVE rstrip(_)
rstrip(s) ==
    IF Len(s) > 0 /\ s[Len(s)] = " " THEN rstrip(SubSeq(s, 1, Len(s) - 1)) ELSE s

strip(s) == rstrip(lstrip(s))

\* "_".join(pieces)
RECURSIVE join(_)
join(pieces) ==
    IF Len(pieces) = 0 THEN <<>>
    ELSE IF Len(pieces) = 1 THEN pieces[1]
    ELSE pieces[1] \o <<"_">> \o join(Tail(pieces))

\* Lexicographic order of text by character code.
RECURSIVE TextLess(_, _)
TextLess(s, t) ==
    IF Len(t) = 0 THEN FALSE
    ELSE IF Len(s) = 0 THEN TRUE
    ELSE IF s[1] = t[1] THEN TextLess(Tail(s), Tail(t))
    ELSE Ord(s[1]) < Ord(t[1])

\* md5(text).hexdigest(), taken as collision-free: the digest of s is the
\* text "#" followed by s, which no raw field text and no other digest equals.
md5_hexdigest(s) == <<"#">> \o s

----------------------------------------------------------------------------
(* Cells, DataFrames, files *)

NA == [t |-> "na", s |-> <<>>, n |-> 0]
Str(s) == [t |-> "str", s |-> s, n |-> 0]
Num(n) == [t |-> "num", s |-> <<>>, n |-> n]

isna(c) == c.t = "na"

\* str(value) of a cell.
str(c) == IF c.t = "num" THEN IntToStr(c.n)
          ELSE IF c.t = "str" THEN c.s
          ELSE <<"n", "a", "n">>

\* A DataFrame: ordered column names, row labels (the index) and rows, each
\* row a sequence of cells in column order.
DataFrame(cols, index, rows) ==
    [df |-> TRUE, cols |-> cols, index |-> index, rows |-> rows]

None == [df |-> FALSE, cols |-> <<>>, index |-> <<>>, rows |-> <<>>]

RangeIndex(n) == [i \in 1..n |-> i - 1]

HasCol(df, name) == \E j \in 1..Len(df.cols) : df.cols[j] = name

ColPos(df, name) == CHOOSE j \in 1..Len(df.cols) : df.cols[j] = name

Column(df, name) == [i \in 1..Len(df.rows) |-> df.rows[i][ColPos(df, name)]]

\* df[name] = values: replaces the column in place when it exists, appends
\* it as the last column otherwise.
SetColumn(df, name, values) ==
    IF HasCol(df, name)
    THEN [df EXCEPT !.rows =
            [i \in 1..Len(df.rows) |->
                [df.rows[i] EXCEPT ![ColPos(df, name)] = values[i]]]]
    ELSE [df EXCEPT !.cols = Append(df.cols, name),
                    !.rows = [i \in 1..Len(df.rows) |->
                                 Append(df.rows[i], values[i])]]

\* Keeps the rows (and their labels) at the positions in keep, in order.
RECURSIVE SelectRows(_, _, _)
SelectRows(index, rows, keep) ==
    IF Len(rows) = 0 THEN <<<<>>, <<>>>>
    ELSE LET rest == SelectRows(Tail(index), Tail(rows),
                                {k - 1 : k \in keep \ {1}})
         IN IF 1 \in keep
            THEN <<<<Head(index)>> \o rest[1], <<Head(rows)>> \o rest[2]>>
            ELSE rest

TakeRows(df, keep) ==
    LET sel == SelectRows(df.index, df.rows, keep)
    IN [df EXCEPT !.index = sel[1], !.rows = sel[2]]

\* A file: header line and data lines of raw field text.  A file of zero
\* bytes has no header.
File(header, lines) == [exists |-> TRUE, header |-> header, lines |-> lines]

NoFile == [exists |-> FALSE, header |-> <<>>, lines |-> <<>>]

\* Field text that pandas reads as a missing value.
NAStrings == {<<>>, <<"N", "U", "L", "L">>}

----------------------------------------------------------------------------
(* pandas *)

\* How read_csv types one column: a column whose present fields are all
\* numerals is numeric; any other column keeps its present fields as text.
ParseColumn(fields) ==
    LET present == {i \in 1..Len(fields) : fields[i] \notin NAStrings}
        numeric == \A i \in present : IsDigits(fields[i])
    IN [i \in 1..Len(fields) |->
          IF i \notin present THEN NA
          ELSE IF numeric THEN Num(StrToInt(fields[i]))
          ELSE Str(fields[i])]

\* read_csv that takes the first data line for a second header line.
read_csv_skip(file) ==
    LET lines == IF Len(file.lines) = 0 THEN <<>> ELSE Tail(file.lines)
        n == Len(lines)
        col(j) == ParseColumn([i \in 1..n |-> lines[i][j]])
    IN DataFrame(file.header, RangeIndex(n),
                 [i \in 1..n |-> [j \in 1..Len(file.header) |-> col(j)[i]]])

\* pd.read_csv(path, delimiter=',') of an existing file that has a header.
read_csv(file) ==
    LET n == Len(file.lines)
        col(j) == ParseColumn([i \in 1..n |-> file.lines[i][j]])
    IN DataFrame(file.header, RangeIndex(n),
                 [i \in 1..n |-> [j \in 1..Len(file.header) |-> col(j)[i]]])

\* How to_csv writes one cell.
FormatCell(c) == IF c.t = "num" THEN IntToStr(c.n)
                 ELSE IF c.t = "str" THEN c.s
                 ELSE <<>>

\* to_csv that writes the row labels whatever index says.
to_csv_indexed(df, index) ==
    File(<<"">> \o df.cols,
         [i \in 1..Len(df.rows) |->
             <<IntToStr(df.index[i])>> \o
             [j \in 1..Len(df.cols) |-> FormatCell(df.rows[i][j])]])

\* df.to_csv(path, index=index): with index=True the row labels are written
\* as a first, unnamed column.
to_csv(df, index) ==
    IF index
    THEN File(<<"">> \o df.cols,
              [i \in 1..Len(df.rows) |->
                  <<IntToStr(df.index[i])>> \o
                  [j \in 1..Len(df.cols) |-> FormatCell(df.rows[i][j])]])
    ELSE File(df.cols,
              [i \in 1..Len(df.rows) |->
                  [j \in 1..Len(df.cols) |-> FormatCell(df.rows[i][j])]])

\* dropna(how='all'): drops only the rows whose every value is missing.
dropna_all(df) ==
    TakeRows(df, {i \in 1..Len(df.rows) :
                    \E j \in 1..Len(df.cols) : ~isna(df.rows[i][j])})

\* df.dropna(): the rows without a missing value, labels kept.
dropna(df) ==
    TakeRows(df, {i \in 1..Len(df.rows) :
                    \A j \in 1..Len(df.cols) : ~isna(df.rows[i][j])})

\* df.drop_duplicates(subset=[name], keep='first'): a new frame with the
\* first row of every group of rows equal in that column.
drop_duplicates(df, name) ==
    LET key == Column(df, name)
    IN TakeRows(df, {i \in 1..Len(df.rows) :
                        \A k \in 1..(i - 1) : key[k] # key[i]})

\* pd.to_numeric(series, errors='raise'): whether every present value is a
\* number or a numeral, and the converted series.
CanParse(c) == c.t = "na" \/ c.t = "num" \/ (c.t = "str" /\ IsDigits(c.s))

to_numeric_ok(series) == \A i \in 1..Len(series) : CanParse(series[i])

to_numeric(series) ==
    [i \in 1..Len(series) |->
        IF series[i].t = "str" THEN Num(StrToInt(series[i].s))
        ELSE series[i]]

\* The sum of a group's values as groupby(...).sum() computes it: missing
\* values are skipped; numbers are added; text values are concatenated.
RECURSIVE GroupSum(_)
GroupSum(values) ==
    IF Len(values) = 0 THEN Num(0)
    ELSE LET rest == GroupSum(Tail(values))
             v == Head(values)
         IN IF v.t = "na" THEN rest
            ELSE IF v.t = "num" THEN Num(v.n + rest.n)
            ELSE IF rest.t = "str" THEN Str(v.s \o rest.s)
            ELSE Str(v.s)

\* Order of the group keys: numbers by value, text by character code.
KeyLess(a, b) == IF a.t = "num" /\ b.t = "num" THEN a.n < b.n
                 ELSE TextLess(str(a), str(b))

RECURSIVE SortKeys(_)
SortKeys(S) ==
    IF S = {} THEN <<>>
    ELSE LET m == CHOOSE k \in S : \A o \in S \ {k} : KeyLess(k, o)
         IN <<m>> \o SortKeys(S \ {m})

\* Rows of df whose key equals key up to case and surrounding blanks.
RowsOf_nocase(df, by, key) ==
    SelectSeq(df.rows, LAMBDA r : lower(strip(str(r[ColPos(df, by)])))
                                     = lower(strip(str(key))))

\* Rows of df whose cell in column `by` equals key, in order.
RowsOf(df, by, key) ==
    SelectSeq(df.rows, LAMBDA r : r[ColPos(df, by)] = key)

\* The present keys of a column in the order of their first appearance.
RECURSIVE FirstSeen(_)
FirstSeen(cells) ==
    IF Len(cells) = 0 THEN <<>>
    ELSE LET c == cells[Len(cells)]
             front == FirstSeen(SubSeq(cells, 1, Len(cells) - 1))
         IN IF isna(c) \/ \E i \in 1..Len(front) : front[i] = c
            THEN front ELSE Append(front, c)

\* groupby(by, as_index=False, sort=False): the groups in the order in
\* which their keys first appear in the source.
groupby_sum_unsorted(df, by, value) ==
    LET keys == FirstSeen(Column(df, by))
        total(k) == GroupSum([i \in 1..Len(RowsOf(df, by, k)) |->
                                 RowsOf(df, by, k)[i][ColPos(df, value)]])
    IN DataFrame(<<by, value>>, RangeIndex(Len(keys)),
                 [i \in 1..Len(keys) |-> <<keys[i], total(keys[i])>>])

\* df.groupby(by, as_index=False)[value].sum(): one row per present key, in
\* ascending key order (sort=True); rows whose key is missing are left out
\* (dropna=True).
groupby_sum(df, by, value) ==
    LET keys == SortKeys({c \in {Column(df, by)[i] : i \in 1..Len(df.rows)} :
                            ~isna(c)})
        total(k) == GroupSum([i \in 1..Len(RowsOf(df, by, k)) |->
                                 RowsOf(df, by, k)[i][ColPos(df, value)]])
    IN DataFrame(<<by, value>>, RangeIndex(Len(keys)),
                 [i \in 1..Len(keys) |-> <<keys[i], total(keys[i])>>])

\* df.rename(columns={old: new})
rename(df, old, new) ==
    [df EXCEPT !.cols = [j \in 1..Len(df.cols) |->
                            IF df.cols[j] = old THEN new ELSE df.cols[j]]]

----------------------------------------------------------------------------
(* The statements of CSVCleaner and Transformations, as functions of the    *)
(* receiver's dataset                                                      *)

\* The default of the parameter columns of generate_uniqueID.
NoneColumns == <<"<None>">>

\* The pieces joined into a row's digest input: for each selected column
\* with a present value, str(value).strip().lower().
RECURSIVE Pieces(_, _, _)
Pieces(df, row, columns) ==
    IF Len(columns) = 0 THEN <<>>
    ELSE LET c == row[ColPos(df, Head(columns))]
         IN (IF isna(c) THEN <<>> ELSE <<lower(strip(str(c)))>>)
            \o Pieces(df, row, Tail(columns))

\* The column list generate_uniqueID digests.
SelectedColumns(df, columns) ==
    IF columns = NoneColumns THEN df.cols ELSE columns

\* The unique_id of a row.
RowKey(df, row, columns) ==
    Str(md5_hexdigest(join(Pieces(df, row, SelectedColumns(df, columns)))))

\* self.data after generate_uniqueID(columns), for a dataset with rows.
generate_uniqueID_data(df, columns) ==
    SetColumn(df, "unique_id",
              [i \in 1..Len(df.rows) |-> RowKey(df, df.rows[i], columns)])

\* self.data after check_duplicates: drop_duplicates builds the frame
\* without the repeated keys, and the statement does not keep it.
check_duplicates_data(df) ==
    LET filtered == drop_duplicates(df, "unique_id")
    IN df

\* The exception convert_transaction_amount raises on a dataset, and
\* self.data after it.
convert_raises(df) ==
    IF ~HasCol(df, "transaction_amount") THEN "KeyError"
    ELSE IF ~to_numeric_ok(Column(df, "transaction_amount")) THEN "ValueError"
    ELSE "none"

\* A conversion that assigns the values it could parse before it raises.
convert_partial(df) ==
    IF convert_raises(df) = "KeyError" THEN df
    ELSE SetColumn(df, "transaction_amount",
                   [i \in 1..Len(df.rows) |->
                       LET c == Column(df, "transaction_amount")[i]
                       IN IF c.t = "str" /\ IsDigits(c.s)
                          THEN Num(StrToInt(c.s)) ELSE c])

convert_transaction_amount_data(df) ==
    IF convert_raises(df) # "none" THEN df
    ELSE SetColumn(df, "transaction_amount",
                   to_numeric(Column(df, "transaction_amount")))

\* The exception group_by_customer_id raises, and self.data after it.
group_by_raises(df) ==
    IF ~HasCol(df, "customer_id") \/ ~HasCol(df, "transaction_amount")
    THEN "KeyError" ELSE "none"

group_by_customer_id_data(df) ==
    rename(groupby_sum(df, "customer_id", "transaction_amount"),
           "transaction_amount", "total_transaction_amount")

----------------------------------------------------------------------------
(* Programs *)

InputPath == "input_data.csv"
CleanedPath == "cleaned_data.csv"
AggregatedPath == "aggregated_transactions.csv"

Paths == {InputPath, CleanedPath, AggregatedPath}

\* The statements of each program, in program order.
Order(p) ==
    IF p = "main"
    THEN <<"read_data", "remove_rows", "generate_uniqueID", "check_duplicates",
           "convert_transaction_amount", "save_data", "Transformations",
           "group_by_customer_id", "t_save_data", "done">>
    ELSE IF p = "cleaner"
    THEN <<"read_data", "remove_rows", "generate_uniqueID", "check_duplicates",
           "convert_transaction_amount", "save_data", "done">>
    ELSE IF p = "transformer"
    THEN <<"Transformations", "group_by_customer_id", "t_save_data", "done">>
    ELSE <<"s_read", "s_dropna", "s_to_numeric", "s_unique_id",
           "s_drop_duplicates", "s_groupby", "s_to_csv", "done">>

Pos(p, op) == CHOOSE i \in 1..Len(Order(p)) : Order(p)[i] = op

InOrder(p, op) == \E i \in 1..Len(Order(p)) : Order(p)[i] = op

Tests == {"cleaner", "transformer"}

\* Whether the program may execute op now.  main and the script execute
\* their statements one after the other.  A test calls the constructor or
\* read_data first and then the later methods in order, leaving out any of
\* them, and may repeat generate_uniqueID.
At(op) ==
    /\ InOrder(prog, op)
    /\ pc \notin {"done", "failed"}
    /\ IF prog \in Tests
       THEN /\ Pos(prog, pc) <= Pos(prog, op)
            /\ Pos(prog, pc) = 1 => Pos(prog, op) = 1
       ELSE pc = op

\* The statement after op; an uncaught exception ends the program.
After(op, raised) ==
    IF raised # "none" THEN "failed"
    ELSE IF prog \in Tests /\ op = "generate_uniqueID" THEN op
    ELSE Order(prog)[Pos(prog, op) + 1]

Call(op, args, before, raised, n) ==
    [op |-> op, args |-> args, before |-> before, raised |-> raised, n |-> n]

NoCall == Call("", <<>>, None, "none", 0)

----------------------------------------------------------------------------
(* CSVCleaner *)

\* read_data(): src/ETL_Exercise.py 34-47
read_data ==
    /\ At("read_data")
    /\ LET file == fs[InputPath]
           raised == IF ~file.exists THEN "FileNotFoundError"
                     ELSE IF file.header = <<>> THEN "EmptyDataError"
                     ELSE IF Len(read_csv(file).rows) = 0 THEN "ValueError"
                     ELSE "none"
       IN /\ data' = IF file.exists /\ file.header # <<>>
                     THEN read_csv(file) ELSE data
          /\ call' = Call("read_data", <<InputPath>>, data, raised, 0)
          /\ pc' = After("read_data", raised)
    /\ UNCHANGED <<fs, prog, tdata, stdout, keyruns>>

\* remove_rows(): src/ETL_Exercise.py 51-62
remove_rows ==
    /\ At("remove_rows")
    /\ LET count_row == Len(data.rows)
           kept == dropna(data)
       IN /\ data' = kept
          /\ call' = Call("remove_rows", <<>>, data, "none",
                          count_row - Len(kept.rows))
    /\ pc' = After("remove_rows", "none")
    /\ UNCHANGED <<fs, prog, tdata, stdout, keyruns>>

Reverse(seq) == [i \in 1..Len(seq) |-> seq[Len(seq) + 1 - i]]

\* The column lists a test passes to generate_uniqueID: the default, each
\* single column, and the columns in reverse order.
ColumnChoices(df) ==
    {NoneColumns} \cup {<<df.cols[j]>> : j \in 1..Len(df.cols)}
                  \cup {Reverse(df.cols)}

\* What the assignment of the keys does on a dataset without rows: apply
\* returns an empty result whose shape depends on the pandas release, and
\* the assignment either adds an empty column or raises ValueError.
EmptyApplyOutcomes == {"none", "ValueError"}

\* generate_uniqueID(columns): src/ETL_Exercise.py 65-88
generate_uniqueID ==
    /\ At("generate_uniqueID")
    /\ keyruns < MaxKeyRuns
    /\ \E columns \in (IF prog = "cleaner" /\ keyruns = 0
                       THEN ColumnChoices(data) ELSE {NoneColumns}) :
       \E raised \in (IF Len(data.rows) = 0 THEN EmptyApplyOutcomes
                      ELSE {"none"}) :
          /\ data' = IF raised = "none"
                     THEN generate_uniqueID_data(data, columns) ELSE data
          /\ call' = Call("generate_uniqueID", columns, data, raised, 0)
          /\ pc' = After("generate_uniqueID", raised)
    /\ keyruns' = keyruns + 1
    /\ UNCHANGED <<fs, prog, tdata, stdout>>

\* check_duplicates(): src/ETL_Exercise.py 92-104
check_duplicates ==
    /\ At("check_duplicates")
    /\ LET raised == IF HasCol(data, "unique_id") THEN "none" ELSE "KeyError"
           count_row == Len(data.rows)
           after == IF raised = "none" THEN check_duplicates_data(data)
                    ELSE data
       IN /\ data' = after
          /\ call' = Call("check_duplicates", <<>>, data, raised,
                          count_row - Len(after.rows))
          /\ pc' = After("check_duplicates", raised)
    /\ UNCHANGED <<fs, prog, tdata, stdout, keyruns>>

\* convert_transaction_amount(): src/ETL_Exercise.py 108-118
convert_transaction_amount ==
    /\ At("convert_transaction_amount")
    /\ data' = convert_transaction_amount_data(data)
    /\ call' = Call("convert_transaction_amount", <<>>, data,
                    convert_raises(data), 0)
    /\ pc' = After("convert_transaction_amount", convert_raises(data))
    /\ UNCHANGED <<fs, prog, tdata, stdout, keyruns>>

\* CSVCleaner.save_data(output_file): src/ETL_Exercise.py 122-131
save_data ==
    /\ At("save_data")
    /\ fs' = [fs EXCEPT ![CleanedPath] = to_csv(data, FALSE)]
    /\ call' = Call("save_data", <<CleanedPath>>, data, "none", 0)
    /\ pc' = After("save_data", "none")
    /\ UNCHANGED <<prog, data, tdata, stdout, keyruns>>

----------------------------------------------------------------------------
(* Transformations *)

\* Transformations(file_path): src/ETL_Exercise.py 148-156
Transformations ==
    /\ At("Transformations")
    /\ LET file == fs[CleanedPath]
           raised == IF ~file.exists THEN "FileNotFoundError"
                     ELSE IF file.header = <<>> THEN "EmptyDataError"
                     ELSE "none"
       IN /\ tdata' = IF raised = "none" THEN read_csv(file) ELSE tdata
          /\ call' = Call("Transformations", <<CleanedPath>>, tdata, raised, 0)
          /\ pc' = After("Transformations", raised)
    /\ UNCHANGED <<fs, prog, data, stdout, keyruns>>

\* group_by_customer_id(): src/ETL_Exercise.py 160-171
group_by_customer_id ==
    /\ At("group_by_customer_id")
    /\ LET raised == group_by_raises(tdata)
       IN /\ tdata' = IF raised = "none" THEN group_by_customer_id_data(tdata)
                      ELSE tdata
          /\ call' = Call("group_by_customer_id", <<>>, tdata, raised, 0)
          /\ pc' = After("group_by_customer_id", raised)
    /\ UNCHANGED <<fs, prog, data, stdout, keyruns>>

\* Transformations.save_data(output_file): src/ETL_Exercise.py 175-184
t_save_data ==
    /\ At("t_save_data")
    /\ fs' = [fs EXCEPT ![AggregatedPath] = to_csv(tdata, FALSE)]
    /\ call' = Call("t_save_data", <<AggregatedPath>>, tdata, "none", 0)
    /\ pc' = After("t_save_data", "none")
    /\ UNCHANGED <<prog, data, tdata, stdout, keyruns>>

----------------------------------------------------------------------------
(* The flat script, src/Simple_ETL_Exercise.py.  input_data is data and     *)
(* groupby_data is tdata; data = None is the name input_data left unbound. *)

FileNotFoundMessage == "Error: file not found."
EmptyMessage == "Error: file is empty."

\* Lines 11-16: both handled cases print and fall through to line 19.
s_read ==
    /\ At("s_read")
    /\ LET file == fs[InputPath]
           raised == IF file.exists /\ file.header = <<>>
                     THEN "EmptyDataError" ELSE "none"
           loaded == file.exists /\ file.header # <<>>
       IN /\ data' = IF loaded THEN read_csv(file) ELSE data
          /\ stdout' = IF ~file.exists THEN stdout \cup {FileNotFoundMessage}
                       ELSE IF loaded /\ Len(read_csv(file).rows) = 0
                       THEN stdout \cup {EmptyMessage}
                       ELSE stdout
          /\ call' = Call("s_read", <<InputPath>>, data, raised, 0)
          /\ pc' = After("s_read", raised)
    /\ UNCHANGED <<fs, prog, tdata, keyruns>>

\* Line 19
s_dropna ==
    /\ At("s_dropna")
    /\ LET raised == IF data.df THEN "none" ELSE "NameError"
       IN /\ data' = IF data.df THEN dropna(data) ELSE data
          /\ call' = Call("s_dropna", <<>>, data, raised, 0)
          /\ pc' = After("s_dropna", raised)
    /\ UNCHANGED <<fs, prog, tdata, stdout, keyruns>>

\* Lines 22-24
s_to_numeric ==
    /\ At("s_to_numeric")
    /\ data' = convert_transaction_amount_data(data)
    /\ call' = Call("s_to_numeric", <<>>, data, convert_raises(data), 0)
    /\ pc' = After("s_to_numeric", convert_raises(data))
    /\ UNCHANGED <<fs, prog, tdata, stdout, keyruns>>

\* Lines 29-41
s_unique_id ==
    /\ At("s_unique_id")
    /\ \E raised \in (IF Len(data.rows) = 0 THEN EmptyApplyOutcomes
                      ELSE {"none"}) :
          /\ data' = IF raised = "none"
                     THEN generate_uniqueID_data(data, data.cols) ELSE data
          /\ call' = Call("s_unique_id", data.cols, data, raised, 0)
          /\ pc' = After("s_unique_id", raised)
    /\ keyruns' = keyruns + 1
    /\ UNCHANGED <<fs, prog, tdata, stdout>>

\* Line 43
s_drop_duplicates ==
    /\ At("s_drop_duplicates")
    /\ data' = check_duplicates_data(data)
    /\ call' = Call("s_drop_duplicates", <<>>, data, "none", 0)
    /\ pc' = After("s_drop_duplicates", "none")
    /\ UNCHANGED <<fs, prog, tdata, stdout, keyruns>>

\* Lines 46-52
s_groupby ==
    /\ At("s_groupby")
    /\ LET raised == group_by_raises(data)
       IN /\ tdata' = IF raised = "none" THEN group_by_customer_id_data(data)
                      ELSE tdata
          /\ call' = Call("s_groupby", <<>>, data, raised, 0)
          /\ pc' = After("s_groupby", raised)
    /\ UNCHANGED <<fs, prog, data, stdout, keyruns>>

\* Line 55
s_to_csv ==
    /\ At("s_to_csv")
    /\ fs' = [fs EXCEPT ![AggregatedPath] = to_csv(tdata, FALSE)]
    /\ call' = Call("s_to_csv", <<AggregatedPath>>, tdata, "none", 0)
    /\ pc' = After("s_to_csv", "none")
    /\ UNCHANGED <<prog, data, tdata, stdout, keyruns>>

----------------------------------------------------------------------------
(* Initial states *)

Programs == {"cleaner", "transformer", "main", "script"}

\* Raw field text of the files on disk, per column.  "NULL" and the empty
\* field are read as missing; "A " differs from "a" only in case and
\* trailing blank; "a_a" contains the separator of the digest input.
FieldTexts(name) ==
    IF name = "customer_id"
    THEN {<<"a">>, <<"A", " ">>, <<"a", "_", "a">>, <<"N", "U", "L", "L">>}
    ELSE {<<"1">>, <<"2">>, <<"a">>, <<"a", "_", "a">>, <<>>}

\* A line of a one-column file is never the empty field (that is a blank
\* line, not a data row).
LinesOf(header) ==
    {r \in [1..Len(header) -> UNION {FieldTexts(header[j]) : j \in 1..Len(header)}] :
        /\ \A j \in 1..Len(header) : r[j] \in FieldTexts(header[j])
        /\ Len(header) = 1 => r[1] # <<>>}

Headers == {<<"customer_id", "transaction_amount">>,
            <<"customer_id">>, <<"transaction_amount">>}

FilesOnDisk ==
    {File(<<>>, <<>>)} \cup
    UNION {UNION {{File(h, lines) : lines \in [1..n -> LinesOf(h)]} :
                     n \in 0..MaxRows} : h \in Headers}

Init ==
    /\ prog \in Programs
    /\ \E f \in FilesOnDisk \cup {NoFile} :
          fs = [p \in Paths |->
                  IF p = (IF prog = "transformer" THEN CleanedPath ELSE InputPath)
                  THEN f ELSE NoFile]
    /\ pc = Order(prog)[1]
    /\ data = None
    /\ tdata = None
    /\ call = NoCall
    /\ stdout = {}
    /\ keyruns = 0

Next ==
    \/ read_data
    \/ remove_rows
    \/ generate_uniqueID
    \/ check_duplicates
    \/ convert_transaction_amount
    \/ save_data
    \/ Transformations
    \/ group_by_customer_id
    \/ t_save_data
    \/ s_read
    \/ s_dropna
    \/ s_to_numeric
    \/ s_unique_id
    \/ s_drop_duplicates
    \/ s_groupby
    \/ s_to_csv

Spec == Init /\ [][Next]_vars

----------------------------------------------------------------------------
TypeOK ==
    /\ prog \in Programs
    /\ pc \in {"failed"} \cup {Order(prog)[i] : i \in 1..Len(Order(prog))}
    /\ data.df \in BOOLEAN
    /\ keyruns \in 0..MaxKeyRuns

----------------------------------------------------------------------------
(* Properties *)

Returned(op) == call.op = op /\ call.raised = "none"

Complete(row) == \A j \in 1..Len(row) : ~isna(row[j])

\* C1: after check_duplicates returns, no two rows of the working dataset
\* have the same unique_id, and the rows left are the first rows of each
\* group of equal keys of the dataset the call was made on.
C1_NoDuplicateKeys ==
    Returned("check_duplicates") =>
        LET key == Column(data, "unique_id")
            was == Column(call.before, "unique_id")
        IN /\ \A i, k \in 1..Len(data.rows) : i # k => key[i] # key[k]
           /\ data.rows = SelectRows(call.before.index, call.before.rows,
                                     {i \in 1..Len(was) :
                                        \A k \in 1..(i - 1) : was[k] # was[i]})[2]

\* The amount a cell adds to a sum: a missing value adds nothing.
AmountOf(c) == IF c.t = "num" THEN c.n ELSE 0

RECURSIVE SumAt(_, _, _)
SumAt(rows, col, S) ==
    IF S = {} THEN 0
    ELSE LET i == CHOOSE i \in S : TRUE
         IN AmountOf(rows[i][col]) + SumAt(rows, col, S \ {i})

NumericColumn(df, name) ==
    \A i \in 1..Len(df.rows) : Column(df, name)[i].t \in {"num", "na"}

\* C2: after group_by_customer_id on a dataset with the columns customer_id
\* and a numeric transaction_amount, every customer_id present in the source
\* is the key of exactly one row, every row's key is a customer_id of the
\* source, and the row's total_transaction_amount is the sum of
\* transaction_amount over the source rows with exactly that customer_id.
C2_GroupTotals ==
    (Returned("group_by_customer_id")
        /\ NumericColumn(call.before, "transaction_amount")) =>
        LET src == call.before
            kc == ColPos(src, "customer_id")
            ac == ColPos(src, "transaction_amount")
            keys == {src.rows[i][kc] : i \in 1..Len(src.rows)} \ {NA}
            group(k) == {i \in 1..Len(src.rows) : src.rows[i][kc] = k}
        IN /\ tdata.cols = <<"customer_id", "total_transaction_amount">>
           /\ \A k \in keys :
                 Cardinality({i \in 1..Len(tdata.rows) : tdata.rows[i][1] = k}) = 1
           /\ \A i \in 1..Len(tdata.rows) :
                 /\ tdata.rows[i][1] \in keys
                 /\ tdata.rows[i][2] =
                        Num(SumAt(src.rows, ac, group(tdata.rows[i][1])))

\* Reached: a customer_id with two source rows, both with an amount, summed
\* into one row.
C2_Witness ==
    /\ Returned("group_by_customer_id")
    /\ NumericColumn(call.before, "transaction_amount")
    /\ \E i, k \in 1..Len(call.before.rows) :
          /\ i # k
          /\ call.before.rows[i][1] = call.before.rows[k][1]
          /\ ~isna(call.before.rows[i][1])
          /\ call.before.rows[i][2].t = "num"
          /\ call.before.rows[k][2].t = "num"
    /\ Len(tdata.rows) = 1

\* Whether a value of the amount column is a number already, is missing, or
\* is the text of a number.
ParsesAsNumber(c) == c.t # "str" \/ IsDigits(c.s)

\* C3: convert_transaction_amount on a dataset with the column either
\* succeeds, every value parsing and the whole column numeric afterwards
\* with everything else as it was, or raises the parse error, some value
\* not parsing and the dataset exactly as it was before the call.
C3_ConvertAtomic ==
    (call.op = "convert_transaction_amount"
        /\ HasCol(call.before, "transaction_amount")) =>
        LET was == call.before
            ac == ColPos(was, "transaction_amount")
            all_parse == \A i \in 1..Len(was.rows) : ParsesAsNumber(was.rows[i][ac])
        IN \/ /\ all_parse
              /\ call.raised = "none"
              /\ data.cols = was.cols
              /\ data.index = was.index
              /\ Len(data.rows) = Len(was.rows)
              /\ \A i \in 1..Len(was.rows) :
                    /\ data.rows[i][ac].t \in {"num", "na"}
                    /\ FormatCell(data.rows[i][ac]) = FormatCell(was.rows[i][ac])
                    /\ \A j \in 1..Len(was.cols) :
                          j # ac => data.rows[i][j] = was.rows[i][j]
           \/ /\ ~all_parse
              /\ call.raised = "ValueError"
              /\ data = was

\* Reached: the call fails on a column that holds the text of a number next
\* to text that is no number.
C3_Witness ==
    /\ call.op = "convert_transaction_amount"
    /\ call.raised = "ValueError"
    /\ \E i, k \in 1..Len(data.rows) :
          /\ Column(data, "transaction_amount")[i].t = "str"
          /\ IsDigits(Column(data, "transaction_amount")[i].s)
          /\ ~ParsesAsNumber(Column(data, "transaction_amount")[k])

\* C4: after remove_rows the working dataset is the rows of the dataset
\* before the call that have no missing value, in their order and with
\* their labels, and the count reported is the number of rows that had one.
C4_RemoveRows ==
    call.op = "remove_rows" =>
        LET was == call.before
            complete == {i \in 1..Len(was.rows) : Complete(was.rows[i])}
        IN /\ call.raised = "none"
           /\ \A i \in 1..Len(data.rows) : Complete(data.rows[i])
           /\ Len(data.rows) <= Len(was.rows)
           /\ data.cols = was.cols
           /\ data.rows = SelectSeq(was.rows, Complete)
           /\ \A i \in 1..Len(data.rows) :
                 \E k \in complete : /\ was.index[k] = data.index[i]
                                     /\ was.rows[k] = data.rows[i]
                                     /\ Cardinality({m \in complete : m < k}) = i - 1
           /\ call.n = Len(was.rows) - Cardinality(complete)

\* Reached: remove_rows removed the first row and kept the second.
C4_Witness ==
    /\ call.op = "remove_rows"
    /\ call.n = 1
    /\ Len(data.rows) = 1
    /\ data.index = <<1>>

\* A value after the normalization of the digest input; a missing value
\* stays missing.
Normalized(c) == IF isna(c) THEN NA ELSE Str(lower(strip(str(c))))

\* Whether two rows of df are equal in every selected column after
\* normalization.
EqualOn(df, r1, r2, columns) ==
    \A j \in 1..Len(columns) :
        Normalized(r1[ColPos(df, columns[j])]) = Normalized(r2[ColPos(df, columns[j])])

\* C5: after generate_uniqueID(columns), two rows have the same unique_id
\* exactly when they are equal in every selected column after trimming and
\* lowercasing: equal rows share a key, and rows that differ in a selected
\* column never do.
C5_KeysSeparateRows ==
    Returned("generate_uniqueID") =>
        LET was == call.before
            sel == IF call.args = NoneColumns THEN was.cols ELSE call.args
            key == Column(data, "unique_id")
        IN \A i, k \in 1..Len(was.rows) :
              (key[i] = key[k]) <=> EqualOn(was, was.rows[i], was.rows[k], sel)

\* The half of C5 the code keeps: rows equal in every selected column after
\* normalization have the same unique_id.
EqualRowsEqualKeys ==
    Returned("generate_uniqueID") =>
        LET was == call.before
            sel == IF call.args = NoneColumns THEN was.cols ELSE call.args
            key == Column(data, "unique_id")
        IN \A i, k \in 1..Len(was.rows) :
              EqualOn(was, was.rows[i], was.rows[k], sel) => key[i] = key[k]

\* C6 as claimed: once main has written the cleaned file, its columns are
\* the columns of the input file, in the same order.
C6_KeyNotPersisted ==
    (prog = "main" /\ fs[CleanedPath].exists) =>
        fs[CleanedPath].header = fs[InputPath].header

\* C6 as the code has it: once main has written the cleaned file, its
\* columns are the columns of the input file, in the same order, followed
\* by unique_id.
C6_KeyPersistedLast ==
    (prog = "main" /\ fs[CleanedPath].exists) =>
        fs[CleanedPath].header = fs[InputPath].header \o <<"unique_id">>

\* Reached: main has written a cleaned file with a data row.
C6_Witness ==
    /\ prog = "main"
    /\ fs[CleanedPath].exists
    /\ Len(fs[CleanedPath].lines) >= 1
    /\ Len(fs[InputPath].header) = 2

\* The stage of the pipeline a statement belongs to: load, clean rows,
\* deduplicate, normalize, persist, reload, aggregate, persist.
StageOf(op) ==
    IF op \in {"read_data", "s_read"} THEN 1
    ELSE IF op \in {"remove_rows", "s_dropna"} THEN 2
    ELSE IF op \in {"generate_uniqueID", "check_duplicates",
                    "s_unique_id", "s_drop_duplicates"} THEN 3
    ELSE IF op \in {"convert_transaction_amount", "s_to_numeric"} THEN 4
    ELSE IF op = "save_data" THEN 5
    ELSE IF op = "Transformations" THEN 6
    ELSE IF op \in {"group_by_customer_id", "s_groupby"} THEN 7
    ELSE IF op \in {"t_save_data", "s_to_csv"} THEN 8
    ELSE 9

\* C7: in main and in the flat script the next statement never belongs to
\* an earlier stage than the last one executed, and once a stage has failed
\* (an exception, or the error the script reports for a missing or empty
\* input) the run is over at that stage: nothing executes after it.
C7_LinearAndTerminal ==
    prog \in {"main", "script"} =>
        /\ (call.op # "" /\ pc # "failed") => StageOf(call.op) <= StageOf(pc)
        /\ call.raised # "none" => pc = "failed"
        /\ stdout # {} => (pc = "failed" /\ call.op = "s_read")

\* The part of C7 that holds: main alone runs its stages in order and an
\* exception ends it.
MainLinearAndTerminal ==
    prog = "main" =>
        /\ (call.op # "" /\ pc # "failed") => StageOf(call.op) <= StageOf(pc)
        /\ call.raised # "none" => pc = "failed"
        /\ pc = "failed" => call.raised # "none"

\* The Deduplicator stage: generate_uniqueID() with the default columns,
\* then check_duplicates().
Deduplicator(df) ==
    check_duplicates_data(generate_uniqueID_data(df, NoneColumns))

\* C8: when main has run the Deduplicator stage on a dataset with rows,
\* running the stage again on the dataset it has left changes nothing: same
\* rows, same order, same columns, same unique_id in every row.
C8_DeduplicatorIdempotent ==
    (prog = "main" /\ Returned("check_duplicates") /\ Len(data.rows) > 0) =>
        Deduplicator(data) = data

\* Same column names in the same order and same cell values in the same
\* row order.
SameDataset(a, b) == a.cols = b.cols /\ a.rows = b.rows

\* C9: after save_data, reading the file written gives the dataset that
\* was saved.
C9_RoundTrip ==
    /\ Returned("save_data") => SameDataset(read_csv(fs[CleanedPath]), data)
    /\ Returned("t_save_data") => SameDataset(read_csv(fs[AggregatedPath]), tdata)

\* The part of C9 that holds: the file has the dataset's columns and no
\* other, and one line per row.
SavedShape ==
    Returned("save_data") =>
        /\ fs[CleanedPath].header = data.cols
        /\ Len(fs[CleanedPath].lines) = Len(data.rows)

\* Whether a cell is what read_csv makes of a field: missing for the
\* missing-value texts, and otherwise a value written as the field.
Holds(cell, field) ==
    IF field \in NAStrings THEN isna(cell)
    ELSE ~isna(cell) /\ FormatCell(cell) = field

\* C10: read_data raises the file-not-found error when there is no file,
\* raises an empty-data error when the file has no data row, and otherwise
\* returns with one row per data line of the file, in file order, none
\* left out.
C10_ReadData ==
    call.op = "read_data" =>
        LET file == fs[InputPath]
        IN /\ ~file.exists => call.raised = "FileNotFoundError"
           /\ (file.exists /\ Len(file.lines) = 0) =>
                 call.raised \in {"ValueError", "EmptyDataError"}
           /\ (file.exists /\ Len(file.lines) > 0) =>
                 /\ call.raised = "none"
                 /\ data.cols = file.header
                 /\ data.index = [i \in 1..Len(file.lines) |-> i - 1]
                 /\ Len(data.rows) = Len(file.lines)
                 /\ \A i \in 1..Len(file.lines) :
                       \A j \in 1..Len(file.header) :
                          Holds(data.rows[i][j], file.lines[i][j])

\* Reached: read_data returned both lines of a file whose first line has
\* a missing value.
C10_Witness ==
    /\ Returned("read_data")
    /\ Len(data.rows) = 2
    /\ ~Complete(data.rows[1])
    /\ Complete(data.rows[2])

\* The bijections of 1..n onto itself.
Perms(n) == {p \in [1..n -> 1..n] : \A i, k \in 1..n : i # k => p[i] # p[k]}

\* The dataset with its rows (and their labels) rearranged by p.
Rearranged(df, p) ==
    [df EXCEPT !.index = [i \in 1..Len(df.rows) |-> df.index[p[i]]],
               !.rows = [i \in 1..Len(df.rows) |-> df.rows[p[i]]]]

\* C11: after group_by_customer_id on a dataset with a numeric
\* transaction_amount, the rows are in ascending customer_id order, and the
\* source with its rows in any other order gives the same dataset, row for
\* row.
C11_AscendingKeyOrder ==
    (Returned("group_by_customer_id")
        /\ NumericColumn(call.before, "transaction_amount")) =>
        /\ \A i, k \in 1..Len(tdata.rows) :
              i < k => /\ tdata.rows[i][1] # tdata.rows[k][1]
                       /\ KeyLess(tdata.rows[i][1], tdata.rows[k][1])
        /\ \A p \in Perms(Len(call.before.rows)) :
              group_by_customer_id_data(Rearranged(call.before, p)) = tdata

\* Reached: a source whose two rows have different keys, the greater key
\* first, aggregated into two rows.
C11_Witness ==
    /\ Returned("group_by_customer_id")
    /\ NumericColumn(call.before, "transaction_amount")
    /\ Len(call.before.rows) = 2
    /\ Len(tdata.rows) = 2
    /\ call.before.rows[1][1] = tdata.rows[2][1]
    /\ call.before.rows[2][1] = tdata.rows[1][1]

====
